---- MODULE Spec2Model ----
\* Model of package rbxver (version.go): formatting, ordering and parsing of
\* four-component Roblox version strings.
\*
\* A byte slice or string is a sequence of one-character strings.  A Version is
\* a record with the fields Major, Minor, Patch, Maint.  A nil []byte is the
\* empty sequence (every non-nil separator of the program has length 1).
EXTENDS Integers, Sequences, FiniteSets

VARIABLES b, f, v, u, pc, pv, pn, perr, sret, lt, gt

vars == <<b, f, v, u, pc, pv, pn, perr, sret, lt, gt>>

-----------------------------------------------------------------------------
\* Bounds of the model.

\* Longest input of the exhaustive family (all strings over Alphabet).
MaxLen == 5

\* Longest run of whitespace around the tokens of the structured family.
MaxPad == 1

\* Largest small component value of the versions that are formatted or compared.
MaxComp == 2

-----------------------------------------------------------------------------
\* Formats (the Format constants of version.go).

Any == "Any"

Dot == "Dot"

Comma == "Comma"

AnySpace == "AnySpace"

DotSpace == "DotSpace"

CommaSpace == "CommaSpace"

Formats == {Any, Dot, Comma, AnySpace, DotSpace, CommaSpace}

\* The errors Parse returns; NoErr is the nil error.
NoErr == "nil"

ErrSyntax == "ErrSyntax"

ErrUnexpectedEOF == "io.ErrUnexpectedEOF"

\* strconv.IntSize of the build that is modelled (int is 32 bits wide).
IntSize == 32

\* The largest int: 2^(IntSize-1) - 1, computed without leaving the int range.
MaxInt == (2^(IntSize - 2) - 1) * 2 + 1

\* The type Version, and its zero value.
MkVersion(ma, mi, pa, mt) == [Major |-> ma, Minor |-> mi, Patch |-> pa, Maint |-> mt]

ZeroVersion == MkVersion(0, 0, 0, 0)

-----------------------------------------------------------------------------
\* Bytes.

DigitChars == <<"0", "1", "2", "3", "4", "5", "6", "7", "8", "9">>

\* '0' <= c && c <= '9'
IsDigit(c) == \E i \in 1..10 : DigitChars[i] = c

DigitVal(c) == (CHOOSE i \in 1..10 : DigitChars[i] = c) - 1

\* unicode.IsSpace on the single-byte characters of the model.
IsSpace(c) == c \in {" ", "\t", "\n", "\r", "\f"}

\* s[i:] for a 0-based offset i.
From(s, i) == SubSeq(s, i + 1, Len(s))

\* s[:i] for a 0-based offset i.
Upto(s, i) == SubSeq(s, 1, i)

\* bytes.TrimLeftFunc(s, unicode.IsSpace)
RECURSIVE TrimLeftSpace(_)
TrimLeftSpace(s) ==
    IF s # <<>> /\ IsSpace(Head(s)) THEN TrimLeftSpace(Tail(s)) ELSE s

-----------------------------------------------------------------------------
\* Formatting.

\* strconv.AppendInt(nil, i, 10) for i > 0: the decimal digits of i.
RECURSIVE AppendInt(_)
AppendInt(i) ==
    IF i < 10 THEN <<DigitChars[i + 1]>>
    ELSE AppendInt(i \div 10) \o <<DigitChars[(i % 10) + 1]>>

\* A slip of formatInt: the sign of a negative value is written.
formatIntSigned(i) ==
    IF i = 0 THEN <<"0">>
    ELSE IF i < 0 THEN <<"-">> \o AppendInt(-i)
    ELSE AppendInt(i)

\* formatInt: what is written to the builder for i.
formatInt(i) ==
    IF i <= 0 THEN <<"0">> ELSE AppendInt(i)

\* The switch of Version.Format: the separator of format fm.
FormatSep(fm) ==
    CASE fm \in {Any, Dot, AnySpace, DotSpace} -> <<".">>
      [] fm = Comma -> <<",">>
      [] fm = CommaSpace -> <<",", " ">>

\* A slip of Version.Format: Comma written like CommaSpace.
FormatCommaSpaced(ver, fm) ==
    LET sep == IF fm \in {Comma, CommaSpace} THEN <<",", " ">> ELSE <<".">>
    IN  formatInt(ver.Major) \o sep \o formatInt(ver.Minor) \o sep
          \o formatInt(ver.Patch) \o sep \o formatInt(ver.Maint)

\* Version.Format
Format(ver, fm) ==
    LET sep == FormatSep(fm)
    IN  formatInt(ver.Major) \o sep \o formatInt(ver.Minor) \o sep
          \o formatInt(ver.Patch) \o sep \o formatInt(ver.Maint)

-----------------------------------------------------------------------------
\* Ordering.

\* Version.Less
Less(x, y) ==
    IF x.Major < y.Major THEN TRUE
    ELSE IF x.Minor < y.Minor THEN TRUE
    ELSE IF x.Patch < y.Patch THEN TRUE
    ELSE IF x.Maint < y.Maint THEN TRUE
    ELSE FALSE

-----------------------------------------------------------------------------
\* Parsing.

\* The loop of parseInt: the length of the run of digits that starts s.
RECURSIVE DigitRun(_)
DigitRun(s) ==
    IF s # <<>> /\ IsDigit(Head(s)) THEN 1 + DigitRun(Tail(s)) ELSE 0

\* The value of the digits s read after the value acc, or -1 once it leaves the
\* int range (strconv's range error).
RECURSIVE Accumulate(_, _)
Accumulate(acc, s) ==
    IF s = <<>> THEN acc
    ELSE IF acc > (MaxInt - DigitVal(Head(s))) \div 10 THEN -1
    ELSE Accumulate(acc * 10 + DigitVal(Head(s)), Tail(s))

\* strconv.ParseInt(s, 10, strconv.IntSize) for a string of digits: the empty
\* string is a syntax error, a value above MaxInt a range error.
ParseIntDec(s) ==
    IF s = <<>> THEN [n |-> 0, failed |-> TRUE]
    ELSE LET n == Accumulate(0, s)
         IN  IF n < 0 THEN [n |-> MaxInt, failed |-> TRUE]
             ELSE [n |-> n, failed |-> FALSE]

\* A slip of parseInt: *comp is written before the result of strconv.ParseInt
\* is checked (on a range error strconv returns the largest value).
parseIntStoreFirst(comp, s) ==
    LET i == DigitRun(s)
        r == ParseIntDec(Upto(s, i))
    IN  IF r.failed \/ r.n < 0 THEN [ok |-> FALSE, comp |-> r.n, b |-> s]
        ELSE [ok |-> TRUE, comp |-> r.n, b |-> From(s, i)]

\* parseInt(&comp, &b): ok is its result, comp and b what it leaves in *comp and
\* *b.
parseInt(comp, s) ==
    LET i == DigitRun(s)
        r == ParseIntDec(Upto(s, i))
    IN  IF r.failed \/ r.n < 0 THEN [ok |-> FALSE, comp |-> comp, b |-> s]
        ELSE [ok |-> TRUE, comp |-> r.n, b |-> From(s, i)]

\* A slip of parseSep: the separator is guessed at every boundary.
parseSepGuessEach(sep, ws, s) ==
    LET s1 == IF ws THEN TrimLeftSpace(s) ELSE s
    IN  IF Len(s1) = 0 THEN [err |-> ErrUnexpectedEOF, sep |-> sep, b |-> s1]
        ELSE IF s1[1] \in {".", ","}
             THEN LET s2 == From(s1, 1)
                  IN  [err |-> NoErr, sep |-> Upto(s1, 1),
                       b |-> IF ws THEN TrimLeftSpace(s2) ELSE s2]
             ELSE [err |-> ErrSyntax, sep |-> sep, b |-> s1]

\* A slip of parseSep: whitespace is skipped whatever ws says.
parseSepTrimAlways(sep, ws, s) ==
    LET s1 == TrimLeftSpace(s)
    IN  IF Len(s1) = 0 THEN [err |-> ErrUnexpectedEOF, sep |-> sep, b |-> s1]
        ELSE IF sep = <<>>
        THEN IF s1[1] \in {".", ","}
             THEN [err |-> NoErr, sep |-> Upto(s1, 1),
                   b |-> TrimLeftSpace(From(s1, 1))]
             ELSE [err |-> ErrSyntax, sep |-> sep, b |-> s1]
        ELSE IF Len(s1) < Len(sep)
             THEN [err |-> ErrUnexpectedEOF, sep |-> sep, b |-> s1]
        ELSE IF Upto(s1, Len(sep)) # sep
             THEN [err |-> ErrSyntax, sep |-> sep, b |-> s1]
        ELSE [err |-> NoErr, sep |-> sep, b |-> TrimLeftSpace(From(s1, Len(sep)))]

\* parseSep(&sep, ws, &b): err is its result, sep and b what it leaves in *sep
\* and *b.
parseSep(sep, ws, s) ==
    LET s1 == IF ws THEN TrimLeftSpace(s) ELSE s
    IN  IF Len(s1) = 0 THEN [err |-> ErrUnexpectedEOF, sep |-> sep, b |-> s1]
        ELSE IF sep = <<>>
        THEN IF s1[1] \in {".", ","}
             THEN LET s2 == From(s1, 1)
                  IN  [err |-> NoErr, sep |-> Upto(s1, 1),
                       b |-> IF ws THEN TrimLeftSpace(s2) ELSE s2]
             ELSE [err |-> ErrSyntax, sep |-> sep, b |-> s1]
        ELSE IF Len(s1) < Len(sep)
             THEN [err |-> ErrUnexpectedEOF, sep |-> sep, b |-> s1]
        ELSE IF Upto(s1, Len(sep)) # sep
             THEN [err |-> ErrSyntax, sep |-> sep, b |-> s1]
        ELSE LET s2 == From(s1, Len(sep))
             IN  [err |-> NoErr, sep |-> sep,
                  b |-> IF ws THEN TrimLeftSpace(s2) ELSE s2]

\* The switch of Parse: the separator format fm fixes (nil when it is guessed).
ParseSepOf(fm) ==
    CASE fm \in {Any, AnySpace} -> <<>>
      [] fm \in {Dot, DotSpace} -> <<".">>
      [] fm \in {Comma, CommaSpace} -> <<",">>

\* The switch of Parse: whether format fm skips whitespace.
ParseWsOf(fm) == fm \in {AnySpace, DotSpace, CommaSpace}

\* The result of Parse.
Ret(ver, s, l, err) == [v |-> ver, n |-> l - Len(s), err |-> err]

\* Parse(b, f)
Parse(s, fm) ==
    LET ws == ParseWsOf(fm)
        l == Len(s)
        b0 == IF ws THEN TrimLeftSpace(s) ELSE s
        v0 == ZeroVersion
    IN
    IF Len(b0) = 0 THEN Ret(v0, b0, l, ErrUnexpectedEOF) ELSE
    LET i1 == parseInt(v0.Major, b0)
        v1 == [v0 EXCEPT !.Major = i1.comp]
    IN
    IF ~i1.ok THEN Ret(v1, i1.b, l, ErrSyntax) ELSE
    LET s1 == parseSep(ParseSepOf(fm), ws, i1.b) IN
    IF s1.err # NoErr THEN Ret(v1, s1.b, l, s1.err) ELSE
    LET i2 == parseInt(v1.Minor, s1.b)
        v2 == [v1 EXCEPT !.Minor = i2.comp]
    IN
    IF ~i2.ok THEN Ret(v2, i2.b, l, ErrSyntax) ELSE
    LET s2 == parseSep(s1.sep, ws, i2.b) IN
    IF s2.err # NoErr THEN Ret(v2, s2.b, l, s2.err) ELSE
    LET i3 == parseInt(v2.Patch, s2.b)
        v3 == [v2 EXCEPT !.Patch = i3.comp]
    IN
    IF ~i3.ok THEN Ret(v3, i3.b, l, ErrSyntax) ELSE
    LET s3 == parseSep(s2.sep, ws, i3.b) IN
    IF s3.err # NoErr THEN Ret(v3, s3.b, l, s3.err) ELSE
    LET i4 == parseInt(v3.Maint, s3.b)
        v4 == [v3 EXCEPT !.Maint = i4.comp]
    IN
    IF ~i4.ok THEN Ret(v4, i4.b, l, ErrSyntax) ELSE
    LET b4 == IF ws THEN TrimLeftSpace(i4.b) ELSE i4.b
    IN  Ret(v4, b4, l, NoErr)

\* A slip of ParseString: bytes left after the version are accepted.
ParseStringPrefix(s, fm) ==
    LET r == Parse(s, fm)
    IN  IF r.err = NoErr THEN r.v ELSE ZeroVersion

\* ParseString(s, f)
ParseString(s, fm) ==
    LET r == Parse(s, fm)
    IN  IF r.err = NoErr /\ r.n = Len(s) THEN r.v ELSE ZeroVersion

-----------------------------------------------------------------------------
\* Inputs.  The strings of the tests of version_test.go, further examples,
\* every string of at most MaxLen bytes over Alphabet, and the prefixes of the
\* structured strings: four components joined by dots and commas, with runs of
\* at most MaxPad spaces around them and an optional trailing letter.

\* ""
ExEmpty == <<>>

\* " "
ExSpace == <<" ">>

\* "a"
ExLetter == <<"a">>

\* "ab"
ExLetters == <<"a", "b">>

\* "."
ExDotOnly == <<".">>

\* ","
ExCommaOnly == <<",">>

\* "1"
ExOne == <<"1">>

\* " 1"
ExSpaceOne == <<" ", "1">>

\* "12"
ExTwelve == <<"1", "2">>

\* "12.34.56.78"
ExDots == <<"1", "2", ".", "3", "4", ".", "5", "6", ".", "7", "8">>

\* "12.34,56.78"
ExMixed == <<"1", "2", ".", "3", "4", ",", "5", "6", ".", "7", "8">>

\* "12,34,56,78"
ExCommas == <<"1", "2", ",", "3", "4", ",", "5", "6", ",", "7", "8">>

\* "12, 34, 56, 78"
ExCommaSpaces == <<"1", "2", ",", " ", "3", "4", ",", " ", "5", "6", ",", " ", "7", "8">>

\* " 12 . 34 . 56 . 78 "
ExSpacedDots == <<" ", "1", "2", " ", ".", " ", "3", "4", " ", ".", " ", "5", "6", " ", ".", " ", "7", "8", " ">>

\* " 12 , 34 , 56 , 78 "
ExSpacedCommas == <<" ", "1", "2", " ", ",", " ", "3", "4", " ", ",", " ", "5", "6", " ", ",", " ", "7", "8", " ">>

\* "12.34. 56 . 78 "
ExInnerSpace == <<"1", "2", ".", "3", "4", ".", " ", "5", "6", " ", ".", " ", "7", "8", " ">>

\* "0.123.1.1234567"
ExLong == <<"0", ".", "1", "2", "3", ".", "1", ".", "1", "2", "3", "4", "5", "6", "7">>

\* "0.123.-1.1234567"
ExMinus == <<"0", ".", "1", "2", "3", ".", "-", "1", ".", "1", "2", "3", "4", "5", "6", "7">>

\* "0.123.1.1234567trailingdata"
ExTrailing == <<"0", ".", "1", "2", "3", ".", "1", ".", "1", "2", "3", "4", "5", "6", "7", "t", "r", "a", "i", "l", "i", "n", "g", "d", "a", "t", "a">>

\* "2147483647.1.1.1"
ExMaxInt == <<"2", "1", "4", "7", "4", "8", "3", "6", "4", "7", ".", "1", ".", "1", ".", "1">>

\* "2147483648.1.1.1"
ExOverflow == <<"2", "1", "4", "7", "4", "8", "3", "6", "4", "8", ".", "1", ".", "1", ".", "1">>

\* "007.0.00.1"
ExLeadZero == <<"0", "0", "7", ".", "0", ".", "0", "0", ".", "1">>

\* "\t1\t.2 .\t3.4\t"
ExTabs == <<"\t", "1", "\t", ".", "2", " ", ".", "\t", "3", ".", "4", "\t">>

Examples ==
    {ExEmpty, ExSpace, ExLetter, ExLetters, ExDotOnly, ExCommaOnly, ExOne,
    ExSpaceOne, ExTwelve, ExDots, ExMixed, ExCommas, ExCommaSpaces,
    ExSpacedDots, ExSpacedCommas, ExInnerSpace, ExLong, ExMinus,
    ExTrailing, ExMaxInt, ExOverflow, ExLeadZero, ExTabs}

Alphabet == {"7", ".", ",", " ", "-"}

ShortInputs == UNION {[1..k -> Alphabet] : k \in 0..MaxLen}

RECURSIVE Pad(_)
Pad(k) == IF k = 0 THEN <<>> ELSE <<" ">> \o Pad(k - 1)

Structured(lead, before, after, trail, s1, s2, s3, tail) ==
    Pad(lead) \o <<"1">> \o Pad(before) \o s1 \o Pad(after)
      \o <<"2", "0">> \o Pad(before) \o s2 \o Pad(after)
      \o <<"3">> \o Pad(before) \o s3 \o Pad(after)
      \o <<"4", "5">> \o Pad(trail) \o tail

SepChoices == {<<".">>, <<",">>}

StructuredInputs ==
    { Structured(p[1], p[2], p[3], p[4], s[1], s[2], s[3], tail) :
        p \in (0..MaxPad) \X (0..MaxPad) \X (0..MaxPad) \X (0..MaxPad),
        s \in SepChoices \X SepChoices \X SepChoices,
        tail \in {<<>>, <<"a">>} }

Prefixes(S) == UNION {{Upto(s, k) : k \in 0..Len(s)} : s \in S}

Inputs == Examples \cup ShortInputs \cup Prefixes(StructuredInputs)

\* The component values of the versions that are formatted: small ones, a
\* negative one, values of several digits and the ends of the int range.
CompVals == (-1)..MaxComp \cup {10, 345, MaxInt, -MaxInt}

FormatVersions ==
    {MkVersion(c[1], c[2], c[3], c[4]) : c \in CompVals \X CompVals \X CompVals \X CompVals}

\* The versions that are compared.
LessVals == 0..MaxComp

LessVersions ==
    {MkVersion(c[1], c[2], c[3], c[4]) : c \in LessVals \X LessVals \X LessVals \X LessVals}

-----------------------------------------------------------------------------
\* The calls.  pc records which calls have been made: a string is parsed with
\* Parse and then with ParseString; a version is formatted and the result is
\* parsed back; two versions are compared in both directions.

InitResults ==
    /\ pv = ZeroVersion
    /\ pn = 0
    /\ perr = NoErr
    /\ sret = ZeroVersion
    /\ lt = FALSE
    /\ gt = FALSE

\* A caller holding a string to parse.
InitParse ==
    /\ b \in Inputs
    /\ f \in Formats
    /\ v = ZeroVersion
    /\ u = ZeroVersion
    /\ pc = "input"
    /\ InitResults

\* A caller holding a version to format.
InitFormat ==
    /\ b = <<>>
    /\ f \in Formats
    /\ v \in FormatVersions
    /\ u = ZeroVersion
    /\ pc = "version"
    /\ InitResults

\* A caller holding two versions to compare.
InitLess ==
    /\ b = <<>>
    /\ f = Any
    /\ v \in LessVersions
    /\ u \in LessVersions
    /\ pc = "pair"
    /\ InitResults

\* b = v.Format(f)
CallFormat ==
    /\ pc = "version"
    /\ b' = Format(v, f)
    /\ pc' = "formatted"
    /\ UNCHANGED <<f, v, u, pv, pn, perr, sret, lt, gt>>

\* pv, pn, perr = Parse(b, f)
CallParse ==
    /\ pc \in {"input", "formatted"}
    /\ LET r == Parse(b, f)
       IN  /\ pv' = r.v
           /\ pn' = r.n
           /\ perr' = r.err
    /\ pc' = "parsed"
    /\ UNCHANGED <<b, f, v, u, sret, lt, gt>>

\* sret = ParseString(string(b), f)
CallParseString ==
    /\ pc = "parsed"
    /\ sret' = ParseString(b, f)
    /\ pc' = "done"
    /\ UNCHANGED <<b, f, v, u, pv, pn, perr, lt, gt>>

\* lt = v.Less(u)
CallLess ==
    /\ pc = "pair"
    /\ lt' = Less(v, u)
    /\ pc' = "less"
    /\ UNCHANGED <<b, f, v, u, pv, pn, perr, sret, gt>>

\* gt = u.Less(v)
CallLessSwapped ==
    /\ pc = "less"
    /\ gt' = Less(u, v)
    /\ pc' = "compared"
    /\ UNCHANGED <<b, f, v, u, pv, pn, perr, sret, lt>>

Next == CallParse \/ CallParseString

NextFormat == CallFormat \/ CallParse \/ CallParseString

NextLess == CallLess \/ CallLessSwapped

\* Parsing of the inputs.
Spec == InitParse /\ [][Next]_vars

\* Formatting of the versions, and parsing of what was formatted.
SpecFormat == InitFormat /\ [][NextFormat]_vars

\* Comparison of the versions.
SpecLess == InitLess /\ [][NextLess]_vars

-----------------------------------------------------------------------------
\* Vocabulary of the properties.

Parsed == pc \in {"parsed", "done"}

Formatted == pc \in {"formatted", "parsed", "done"}

NonNegative(ver) ==
    ver.Major >= 0 /\ ver.Minor >= 0 /\ ver.Patch >= 0 /\ ver.Maint >= 0

Components(ver) == <<ver.Major, ver.Minor, ver.Patch, ver.Maint>>

IsSepChar(c) == c \in {".", ","}

\* The separator character a format fixes, "" when the format guesses it.
FixedSepChar(fm) ==
    CASE fm \in {Dot, DotSpace} -> "."
      [] fm \in {Comma, CommaSpace} -> ","
      [] OTHER -> ""

SpaceFormats == {AnySpace, DotSpace, CommaSpace}

\* The format that differs from fm only in not skipping whitespace.
Strict(fm) ==
    CASE fm = AnySpace -> Any
      [] fm = DotSpace -> Dot
      [] fm = CommaSpace -> Comma
      [] OTHER -> fm

\* The number a string of digits denotes (digits only, within the int range).
RECURSIVE DecValue(_)
DecValue(s) ==
    IF s = <<>> THEN 0 ELSE DecValue(Upto(s, Len(s) - 1)) * 10 + DigitVal(s[Len(s)])

\* Whether the digits s denote a number within the int range.
InIntRange(s) == Accumulate(0, s) >= 0

\* The maximal runs of digits of s, in order.
RECURSIVE DigitRuns(_)
DigitRuns(s) ==
    IF s = <<>> THEN <<>>
    ELSE IF IsDigit(Head(s))
         THEN LET k == DigitRun(s) IN <<Upto(s, k)>> \o DigitRuns(From(s, k))
         ELSE DigitRuns(Tail(s))

\* s without its whitespace.
RECURSIVE Squeeze(_)
Squeeze(s) ==
    IF s = <<>> THEN <<>>
    ELSE IF IsSpace(Head(s)) THEN Squeeze(Tail(s))
    ELSE <<Head(s)>> \o Squeeze(Tail(s))

\* The fields of s: what lies between its separator characters, without spaces.
RECURSIVE Fields(_, _)
Fields(s, cur) ==
    IF s = <<>> THEN <<cur>>
    ELSE IF IsSepChar(Head(s)) THEN <<cur>> \o Fields(Tail(s), <<>>)
    ELSE IF IsSpace(Head(s)) THEN Fields(Tail(s), cur)
    ELSE Fields(Tail(s), cur \o <<Head(s)>>)

\* The separator characters of s.
SepCharsOf(s) == {s[i] : i \in {j \in 1..Len(s) : IsSepChar(s[j])}}

SepCount(s) == Cardinality({j \in 1..Len(s) : IsSepChar(s[j])})

HasSpace(s) == \E i \in 1..Len(s) : IsSpace(s[i])

\* The last byte of s that is not whitespace, "" when there is none.
LastToken(s) ==
    LET idx == {i \in 1..Len(s) : ~IsSpace(s[i])}
    IN  IF idx = {} THEN "" ELSE s[CHOOSE i \in idx : \A j \in idx : j <= i]

\* The values of the runs rs, followed by zeros, as a version.
RunsVersion(rs) ==
    LET at(i) == IF i <= Len(rs) THEN DecValue(rs[i]) ELSE 0
    IN  MkVersion(at(1), at(2), at(3), at(4))

\* The standard lexicographic order on (Major, Minor, Patch, Maint).
LexLess(x, y) ==
    \/ x.Major < y.Major
    \/ x.Major = y.Major /\ x.Minor < y.Minor
    \/ x.Major = y.Major /\ x.Minor = y.Minor /\ x.Patch < y.Patch
    \/ x.Major = y.Major /\ x.Minor = y.Minor /\ x.Patch = y.Patch /\ x.Maint < y.Maint

-----------------------------------------------------------------------------
\* C1: a version of non-negative components, formatted under any format and
\* parsed back with ParseString under the same format, is the version itself.
C1_RoundTrip ==
    (pc = "done" /\ NonNegative(v)) => sret = v

C1_Witness ==
    /\ pc = "done"
    /\ f = Comma
    /\ v = MkVersion(MaxInt, 10, 0, 345)
    /\ sret = v

\* C2: Less is the strict lexicographic order on (Major, Minor, Patch, Maint):
\* v.Less(u) holds exactly when v is smaller at the first component where they
\* differ, so it never holds both ways and holds one way for distinct versions.
C2_Lexicographic ==
    /\ pc \in {"less", "compared"} => lt = LexLess(v, u)
    /\ pc = "compared" =>
         /\ gt = LexLess(u, v)
         /\ ~(lt /\ gt)
         /\ (v # u => (lt \/ gt))

\* C3: Format joins the four rendered components with three separators, "."
\* for Any, Dot, AnySpace and DotSpace and ", " for Comma and CommaSpace.
C3_Separators ==
    Formatted =>
      LET sep == IF f \in {Comma, CommaSpace} THEN <<",", " ">> ELSE <<".">>
      IN  b = formatInt(v.Major) \o sep \o formatInt(v.Minor) \o sep
                \o formatInt(v.Patch) \o sep \o formatInt(v.Maint)

\* C4: Format writes no minus sign: a component that is zero or negative is
\* written as "0", a positive one as its decimal digits without leading zeros.
C4_NoMinus ==
    Formatted =>
      LET fs == Fields(b, <<>>)
          cs == Components(v)
      IN  /\ \A i \in 1..Len(b) : b[i] # "-"
          /\ Len(fs) = 4
          /\ \A i \in 1..4 :
               IF cs[i] <= 0 THEN fs[i] = <<"0">>
               ELSE /\ fs[i] # <<>>
                    /\ \A j \in 1..Len(fs[i]) : IsDigit(fs[i][j])
                    /\ fs[i][1] # "0"
                    /\ DecValue(fs[i]) = cs[i]

C4_Witness ==
    /\ pc = "formatted"
    /\ v = MkVersion(-1, -MaxInt, 0, 345)
    /\ f = CommaSpace

\* C5: ParseString returns the version of Parse exactly when Parse returned no
\* error and consumed the whole string, and the zero version otherwise, as for
\* "0.123.1.1234567trailingdata" under Dot, of which Parse consumes 15 bytes.
C5_ParseStringStrict ==
    pc = "done" =>
      /\ sret = IF perr = NoErr /\ pn = Len(b) THEN pv ELSE ZeroVersion
      /\ (b = ExTrailing /\ f = Dot) =>
           /\ perr = NoErr
           /\ pn = 15
           /\ pv = MkVersion(0, 123, 1, 1234567)
           /\ sret = ZeroVersion

C5_Witness ==
    /\ pc = "done"
    /\ b = ExTrailing
    /\ f = Dot
    /\ perr = NoErr
    /\ pn = 15
    /\ sret = ZeroVersion

\* C6: the count Parse returns lies between 0 and len(b); on an error it is the
\* offset where the failing token begins: the bytes before it are whole
\* components, separators and (under the whitespace formats) whitespace, the
\* version holds the components before it and zeros after them, and what
\* starts there is not the token that is due.  "0.123.-1.1234567" under Any
\* gives {0,123,0,0}, 6 and ErrSyntax.
C6_FailureOffset ==
    Parsed =>
      /\ 0 <= pn
      /\ pn <= Len(b)
      /\ perr # NoErr =>
           LET p == Upto(b, pn)
               rest == From(b, pn)
               rs == DigitRuns(p)
               last == LastToken(p)
           IN  /\ Len(rs) <= 3
               /\ \A i \in 1..Len(p) :
                    \/ IsDigit(p[i])
                    \/ IsSepChar(p[i])
                    \/ f \in SpaceFormats /\ IsSpace(p[i])
               /\ pv = RunsVersion(rs)
               /\ f \in SpaceFormats => (rest = <<>> \/ ~IsSpace(rest[1]))
               /\ IF last = "" \/ IsSepChar(last)
                  THEN \* a component is due
                       /\ SepCount(p) = Len(rs)
                       /\ \/ rest = <<>>
                          \/ ~IsDigit(rest[1])
                          \/ ~InIntRange(Upto(rest, DigitRun(rest)))
                  ELSE \* a separator is due
                       /\ SepCount(p) = Len(rs) - 1
                       /\ \/ rest = <<>>
                          \/ ~IsSepChar(rest[1])
                          \/ FixedSepChar(f) \notin {"", rest[1]}
                          \/ SepCharsOf(p) \notin {{}, {rest[1]}}
      /\ (b = ExMinus /\ f = Any) =>
           /\ pv = MkVersion(0, 123, 0, 0)
           /\ pn = 6
           /\ perr = ErrSyntax

C6_Witness ==
    /\ pc = "parsed"
    /\ b = ExMinus
    /\ f = Any
    /\ pn = 6
    /\ perr = ErrSyntax

\* C7: under Any, Dot and Comma a comma is a separator only when one space
\* follows it: "12, 34, 56, 78" parses under Comma and Any to {12,34,56,78}
\* with 14 consumed, and "12,34,56,78" fails under Any, Dot and Comma with
\* {12,0,0,0}, 2 consumed and ErrSyntax.
C7_CommaThenSpace ==
    Parsed =>
      /\ (b = ExCommaSpaces /\ f \in {Comma, Any}) =>
           /\ pv = MkVersion(12, 34, 56, 78)
           /\ pn = 14
           /\ perr = NoErr
      /\ (b = ExCommas /\ f \in {Any, Dot, Comma}) =>
           /\ pv = MkVersion(12, 0, 0, 0)
           /\ pn = 2
           /\ perr = ErrSyntax

\* C8: the separator of the first boundary, fixed by the format or guessed, is
\* the separator of the second and the third: the bytes Parse consumes hold
\* one kind of separator, the format's when it fixes one, and three of them on
\* success; "12.34,56.78" fails under every format with ErrSyntax at the
\* mismatching separator (5 where the dot is accepted first, 2 under the comma
\* formats).
C8_SeparatorConsistency ==
    Parsed =>
      LET p == Upto(b, pn)
      IN  /\ Cardinality(SepCharsOf(p)) <= 1
          /\ FixedSepChar(f) # "" => SepCharsOf(p) \subseteq {FixedSepChar(f)}
          /\ perr = NoErr => SepCount(p) = 3
          /\ b = ExMixed =>
               /\ perr = ErrSyntax
               /\ pn = IF f \in {Comma, CommaSpace} THEN 2 ELSE 5

C8_Witness ==
    /\ pc = "parsed"
    /\ b = ExMixed
    /\ f = Any
    /\ pn = 5
    /\ perr = ErrSyntax
    /\ pv = MkVersion(12, 34, 0, 0)

\* C9: a failure of Parse is io.ErrUnexpectedEOF when more bytes were required
\* than were available, that is when the input is used up, and ErrSyntax when
\* the bytes that are available break the grammar where Parse stands.
C9_ErrorKinds ==
    (Parsed /\ perr # NoErr) =>
      /\ perr \in {ErrUnexpectedEOF, ErrSyntax}
      /\ perr = ErrUnexpectedEOF <=> pn = Len(b)
      /\ b = ExEmpty => (perr = ErrUnexpectedEOF /\ pn = 0 /\ pv = ZeroVersion)
      /\ b \in {ExOne, ExTwelve} =>
           (perr = ErrUnexpectedEOF /\ pn = Len(b) /\ pv = RunsVersion(<<b>>))
      /\ (b \in {ExSpace, ExSpaceOne, ExLetter, ExDotOnly, ExCommaOnly}
            /\ f \notin SpaceFormats) =>
           (perr = ErrSyntax /\ pn = 0 /\ pv = ZeroVersion)

====
